---------------------------- MODULE Spec2Model ----------------------------
(***************************************************************************)
(* A model of the AOJCatalog marketplace scripts:                          *)
(*   export.py            spreadsheet -> TSV index, with file downloads    *)
(*   load_yaml.py         catalog config -> Catalog table                  *)
(*   load_cabinets.py     per-catalog CSV feeds -> Cabinet table           *)
(*   create_db.py         schema creation                                  *)
(* Three specifications share the module:                                  *)
(*   Spec     one run of export.py (main / xlsx_to_tsv)                     *)
(*   SpecFn   single calls of the pure helpers of export.py                *)
(*   SpecDb   sequences of runs of the database scripts                    *)
(***************************************************************************)
EXTENDS Integers, Sequences, FiniteSets, TLC

VARIABLES
    \* ---- export.py: one run of main()/xlsx_to_tsv ----
    sheet,          \* the data rows of the active sheet (row 2 onwards)
    pc,             \* position of the run
    folder,         \* the download folder: "untried", "created" or "failed"
    row_pos,        \* number of data rows the loop has consumed
    tsv,            \* rows written to the output index so far
    counters,       \* the rows_* counters of xlsx_to_tsv
    results,        \* per consumed row: what process_excel_row did
    exit_status,    \* -1 while running, else the process exit status
    \* ---- single calls of helper functions ----
    call,
    \* ---- the SQLite database and the runs of the loader scripts ----
    db,             \* committed content of the database file
    run             \* the last finished script run

export_vars == <<sheet, pc, folder, row_pos, tsv, counters, results, exit_status>>
fn_vars == <<call>>
db_vars == <<db, run>>
vars ==
    <<sheet, pc, folder, row_pos, tsv, counters, results, exit_status, call, db, run>>

(***************************************************************************)
(* Python values.  A cell value, a YAML scalar or a JSON field is None, a  *)
(* str or an int; the three are kept apart because the code tests          *)
(* truthiness, `is None`, and calls str() on them.                         *)
(***************************************************************************)
None == [t |-> "none", s |-> "", n |-> 0]
PyText(x) == [t |-> "str", s |-> x, n |-> 0]
PyInt(k) == [t |-> "int", s |-> "", n |-> k]

IsNone(v) == v.t = "none"
IsStr(v) == v.t = "str"

\* bool(v)
Truthy(v) ==
    CASE v.t = "none" -> FALSE
      [] v.t = "str" -> v.s # ""
      [] v.t = "int" -> v.n # 0

Digit == <<"0", "1", "2", "3", "4", "5", "6", "7", "8", "9">>

RECURSIVE DecStr(_)
DecStr(k) == IF k < 10 THEN Digit[k + 1] ELSE DecStr(k \div 10) \o Digit[(k % 10) + 1]

\* str(v)
PyStr(v) ==
    CASE v.t = "none" -> "None"
      [] v.t = "str" -> v.s
      [] v.t = "int" -> IF v.n < 0 THEN "-" \o DecStr(0 - v.n) ELSE DecStr(v.n)

(***************************************************************************)
(* Text as a tuple of characters.  An ASCII character is the one-character *)
(* string; a non-ASCII character is written by its code point ("U+00E9").  *)
(***************************************************************************)
Chars(str) == [i \in 1..Len(str) |-> SubSeq(str, i, i)]

RECURSIVE Join(_)
Join(cs) == IF cs = <<>> THEN "" ELSE Head(cs) \o Join(Tail(cs))

IsAscii(c) == Len(c) = 1

Lower == {"a", "b", "c", "d", "e", "f", "g", "h", "i", "j", "k", "l", "m",
          "n", "o", "p", "q", "r", "s", "t", "u", "v", "w", "x", "y", "z"}
Upper == {"A", "B", "C", "D", "E", "F", "G", "H", "I", "J", "K", "L", "M",
          "N", "O", "P", "Q", "R", "S", "T", "U", "V", "W", "X", "Y", "Z"}
Digits == {"0", "1", "2", "3", "4", "5", "6", "7", "8", "9"}

\* regex \w and \s on text that is already ASCII
IsWord(c) == c \in Lower \cup Upper \cup Digits \cup {"_"}
IsSpace(c) == c \in {" ", "\t", "\n", "\r", "\f"}

(***************************************************************************)
(* sanitize_filename (export.py 12-23)                                     *)
(***************************************************************************)
\* unicodedata.normalize('NFKD', .) of one character: e-acute decomposes to
\* e + combining acute, the no-break space to a space; a CJK ideograph and
\* every ASCII character normalise to themselves.
NFKD(c) ==
    CASE c = "U+00E9" -> <<"e", "U+0301">>
      [] c = "U+00A0" -> <<" ">>
      [] OTHER -> <<c>>

RECURSIVE Normalize(_)
Normalize(cs) == IF cs = <<>> THEN <<>> ELSE NFKD(Head(cs)) \o Normalize(Tail(cs))

\* .encode('ascii', 'ignore').decode('ascii')
EncodeAsciiIgnore(cs) == SelectSeq(cs, IsAscii)

\* re.sub(r'[^\w\s.-]', '_', .)
SubInvalid(cs) ==
    [i \in 1..Len(cs) |->
        IF IsWord(cs[i]) \/ IsSpace(cs[i]) \/ cs[i] \in {".", "-"} THEN cs[i] ELSE "_"]

\* str.strip()
RECURSIVE LStrip(_)
LStrip(cs) == IF cs # <<>> /\ IsSpace(Head(cs)) THEN LStrip(Tail(cs)) ELSE cs

RECURSIVE RStrip(_)
RStrip(cs) ==
    IF cs # <<>> /\ IsSpace(cs[Len(cs)]) THEN RStrip(SubSeq(cs, 1, Len(cs) - 1)) ELSE cs

Strip(cs) == RStrip(LStrip(cs))

IsSep(c) == IsSpace(c) \/ c = "_"

\* a plausible slip: only runs of underscores are collapsed, r'_+'
RECURSIVE CollapseUnderscoresOnly(_)
CollapseUnderscoresOnly(cs) ==
    IF cs = <<>> THEN <<>>
    ELSE IF Head(cs) = "_" /\ Len(cs) > 1 /\ cs[2] = "_" THEN CollapseUnderscoresOnly(Tail(cs))
    ELSE <<Head(cs)>> \o CollapseUnderscoresOnly(Tail(cs))

\* re.sub(r'[\s_]+', '_', .): every maximal run of separators becomes one "_"
RECURSIVE Collapse(_)
Collapse(cs) ==
    IF cs = <<>> THEN <<>>
    ELSE IF IsSep(Head(cs))
         THEN IF Len(cs) > 1 /\ IsSep(cs[2]) THEN Collapse(Tail(cs))
              ELSE <<"_">> \o Collapse(Tail(cs))
         ELSE <<Head(cs)>> \o Collapse(Tail(cs))

Placeholder == Chars("downloaded_file")

sanitize_filename(filename) ==
    LET ascii == EncodeAsciiIgnore(Normalize(filename))
        cleaned == Collapse(Strip(SubInvalid(ascii)))
    IN  IF cleaned = <<>> THEN Placeholder ELSE cleaned

(***************************************************************************)
(* Searching text                                                          *)
(***************************************************************************)
\* cs[p..] starts with the characters of `lit`
StartsAt(cs, p, lit) ==
    /\ p >= 1
    /\ p + Len(lit) - 1 <= Len(cs)
    /\ SubSeq(cs, p, p + Len(lit) - 1) = lit

\* Python's `lit in text`
Contains(cs, lit) == \E p \in 1..(Len(cs) + 1) : StartsAt(cs, p, lit)

EndsWith(cs, lit) == Len(cs) >= Len(lit) /\ StartsAt(cs, Len(cs) - Len(lit) + 1, lit)

\* length of the longest run of characters of class `cls` that starts at p
RECURSIVE RunLen(_, _, _)
RunLen(cs, p, cls) ==
    IF p <= Len(cs) /\ cs[p] \in cls THEN 1 + RunLen(cs, p + 1, cls) ELSE 0

UpperSeq == Chars("ABCDEFGHIJKLMNOPQRSTUVWXYZ")
LowerSeq == Chars("abcdefghijklmnopqrstuvwxyz")

\* str.lower() on ASCII text
ToLower(cs) ==
    [i \in 1..Len(cs) |->
        IF cs[i] \in Upper
        THEN LowerSeq[CHOOSE k \in 1..26 : UpperSeq[k] = cs[i]]
        ELSE cs[i]]

(***************************************************************************)
(* get_zip_file_url (export.py 113-183)                                    *)
(*                                                                         *)
(* `api` is what the Discord message endpoint does when it is asked:       *)
(*   kind         "ok" | "timeout" | "http_error" | "network_error" |      *)
(*                "malformed" (a body that is not the expected JSON object)*)
(*   attachments  the message's 'attachments' list; <<>> when the key is   *)
(*                missing or the list is empty.  Each attachment has a     *)
(*                'url' and a 'filename', None standing for a missing key. *)
(***************************************************************************)
\* re.search(r'channels/(\d+|@me)/(\d+)/(\d+)', url) matches at position p
DiscordMatchAt(cs, p) ==
    /\ StartsAt(cs, p, Chars("channels/"))
    /\ LET q == p + 9
           g1 == IF RunLen(cs, q, Digits) > 0 THEN RunLen(cs, q, Digits)
                 ELSE IF StartsAt(cs, q, Chars("@me")) THEN 3 ELSE 0
           r == q + g1 + 1
           g2 == RunLen(cs, r, Digits)
           t == r + g2 + 1
       IN  /\ g1 > 0
           /\ StartsAt(cs, q + g1, <<"/">>)
           /\ g2 > 0
           /\ StartsAt(cs, r + g2, <<"/">>)
           /\ RunLen(cs, t, Digits) > 0

DiscordUrlMatches(discord_url) ==
    \E p \in 1..Len(discord_url) : DiscordMatchAt(Chars(discord_url), p)

\* a plausible slip: the comparison without .lower()
IsZipNameCaseSensitive(filename) ==
    /\ IsStr(filename)
    /\ EndsWith(Chars(filename.s), Chars(".zip"))

\* attachment.get('filename', '').lower().endswith('.zip')
IsZipName(filename) ==
    /\ IsStr(filename)
    /\ EndsWith(ToLower(Chars(filename.s)), Chars(".zip"))

\* the loop of lines 143-153 over attachments[i..]: <<zip_url, first_url>>
RECURSIVE ScanAttachments(_, _, _)
ScanAttachments(atts, i, first_url) ==
    IF i > Len(atts) THEN <<None, first_url>>
    ELSE LET attachment_url == atts[i].url
             first == IF IsNone(first_url) THEN attachment_url ELSE first_url
         IN  IF ~Truthy(attachment_url) THEN ScanAttachments(atts, i + 1, first_url)
             ELSE IF IsZipName(atts[i].filename) THEN <<attachment_url, first>>
             ELSE ScanAttachments(atts, i + 1, first)

\* the exception met at lines 136-138 for what the endpoint does, "" for none
ResolverException(api) ==
    CASE api.kind = "timeout" -> "Timeout"
      [] api.kind = "http_error" -> "HTTPError"
      [] api.kind = "network_error" -> "ConnectionError"
      [] api.kind = "malformed" -> "AttributeError"
      [] OTHER -> ""

\* a plausible slip: the last handler, except Exception, is missing
CatchesNamedErrorsOnly(exc) ==
    exc \in {"Timeout", "HTTPError", "ConnectionError", "KeyError"}

\* lines 169-183: Timeout, HTTPError, RequestException, KeyError, Exception
CaughtInResolver(exc) == TRUE

\* what the call gives back after the API request was sent
Resolved(ret, exc) ==
    [ret |-> ret, called |-> TRUE,
     raised |-> IF exc # "" /\ ~CaughtInResolver(exc) THEN exc ELSE ""]

\* [ret: the URL or None, called: whether the API request was sent, raised:
\*  the exception that escapes ("" for none)]
get_zip_file_url(token, discord_url, api) ==
    IF ~DiscordUrlMatches(discord_url)
    THEN [ret |-> None, called |-> FALSE, raised |-> ""]
    ELSE IF api.kind # "ok" THEN Resolved(None, ResolverException(api))
    ELSE IF api.attachments = <<>> THEN Resolved(None, "")
    ELSE LET found == ScanAttachments(api.attachments, 1, None)
             zip_url == found[1]
             first_url == found[2]
         IN  IF Truthy(zip_url) THEN Resolved(zip_url, "")
             ELSE IF Truthy(first_url) THEN Resolved(first_url, "")
             ELSE Resolved(None, "")

(***************************************************************************)
(* create_direct_download_link (export.py 188-198)                         *)
(***************************************************************************)
MinIdLen == 25

IdChars == Lower \cup Upper \cup Digits \cup {"_", "-"}

DirectPrefix == "https://drive.google.com/uc?export=download&id="

\* (?:/d/|id=)([a-zA-Z0-9_-]{25,}) matches at position p
DriveMatchAt(cs, p) ==
    /\ StartsAt(cs, p, Chars("/d/")) \/ StartsAt(cs, p, Chars("id="))
    /\ RunLen(cs, p + 3, IdChars) >= MinIdLen

\* a plausible slip: the quantifier written {25} takes 25 characters only
DriveIdFirst25(cs, p) == SubSeq(cs, p + 3, p + 2 + MinIdLen)

\* group(1) of the match at p: the greedy quantifier takes the whole run
DriveId(cs, p) == SubSeq(cs, p + 3, p + 2 + RunLen(cs, p + 3, IdChars))

create_direct_download_link(google_drive_url) ==
    LET cs == Chars(google_drive_url)
        hits == {p \in 1..Len(cs) : DriveMatchAt(cs, p)}
    IN  IF hits # {}
        THEN LET p == CHOOSE h \in hits : \A o \in hits : h <= o
             IN  PyText(DirectPrefix \o Join(DriveId(cs, p)))
        ELSE None

(***************************************************************************)
(* download_file (export.py 26-108)                                        *)
(*                                                                         *)
(* `net` is what fetching the URL and saving the body does:                *)
(*   kind         "response" | "timeout" | "network_error" | "os_error"    *)
(*                (os_error: there is a response, makedirs/open/copy fails)*)
(*   status       the HTTP status of the response, 0 when there is none    *)
(*   disposition  the content-disposition header, None when absent         *)
(*   ctype        the content-type header, "" when absent                  *)
(***************************************************************************)
Response(kind, status, disposition, ctype) ==
    [kind |-> kind, status |-> status, disposition |-> disposition, ctype |-> ctype]

NetOk == Response("response", 200, None, "")
NetTimeout == Response("timeout", 0, None, "")
Net404 == Response("response", 404, None, "")
NetError == Response("network_error", 0, None, "")
NetOsError == Response("os_error", 200, None, "")
NoNet == Response("none", 0, None, "")

Nets == {NetOk, NetTimeout, Net404, NetError, NetOsError}

\* line 39, r.raise_for_status(): an HTTPError for the statuses 400 to 599
RaisesForStatus(status) == status >= 400 /\ status < 600

\* the exception met inside the try block of lines 35-95, "" for none
DownloadException(net) ==
    IF net.kind = "timeout" THEN "Timeout"
    ELSE IF net.kind = "network_error" THEN "ConnectionError"
    ELSE IF RaisesForStatus(net.status) THEN "HTTPError"
    ELSE IF net.kind = "os_error" THEN "OSError"
    ELSE ""

\* a plausible slip: the handlers for OSError and Exception are missing
CatchesRequestErrorsOnly(exc) == exc \in {"Timeout", "ConnectionError", "HTTPError"}

\* lines 97-108: Timeout, RequestException, OSError, and Exception last
CaughtInDownload(exc) == TRUE

\* a plausible slip: an HTTP error status is not checked (no raise_for_status)
DownloadSucceedsIgnoringStatus(net) == net.kind = "response"

\* the body of the try block returns True (line 95)
DownloadSucceeds(net) == DownloadException(net) = ""

Quote == "\""

RECURSIVE UnquotedRun(_, _)
UnquotedRun(cs, p) ==
    IF p <= Len(cs) /\ cs[p] # Quote THEN 1 + UnquotedRun(cs, p + 1) ELSE 0

\* group(1) of r'filename="?([^"]+)"?' matched at p, <<>> when it does not match
FilenameGroupAt(cs, p) ==
    IF ~StartsAt(cs, p, Chars("filename=")) THEN <<>>
    ELSE LET q == p + Len("filename=")
             start == IF q <= Len(cs) /\ cs[q] = Quote /\ UnquotedRun(cs, q + 1) > 0
                      THEN q + 1
                      ELSE q
         IN  SubSeq(cs, start, start + UnquotedRun(cs, start) - 1)

\* lines 42-45: re.search on the content-disposition header
HeaderFilename(disposition) ==
    IF ~Truthy(disposition) THEN <<>>
    ELSE LET cs == Chars(disposition.s)
             hits == {p \in 1..Len(cs) : FilenameGroupAt(cs, p) # <<>>}
         IN  IF hits = {} THEN <<>>
             ELSE FilenameGroupAt(cs, CHOOSE h \in hits : \A o \in hits : h <= o)

\* the first position >= p of cs that holds a character of `stops`, else Len(cs) + 1
RECURSIVE FirstOf(_, _, _)
FirstOf(cs, p, stops) ==
    IF p > Len(cs) \/ cs[p] \in stops THEN p ELSE FirstOf(cs, p + 1, stops)

\* urlparse(url).path: what follows scheme://netloc, up to the query or fragment
UrlPath(cs) ==
    LET colon == FirstOf(cs, 1, {":"})
        begin == IF StartsAt(cs, colon, Chars("://"))
                 THEN FirstOf(cs, colon + 3, {"/", "?", "#"})
                 ELSE 1
    IN  SubSeq(cs, begin, FirstOf(cs, begin, {"?", "#"}) - 1)

\* os.path.basename
RECURSIVE Basename(_)
Basename(cs) ==
    IF cs = <<>> \/ cs[Len(cs)] = "/" THEN <<>>
    ELSE Append(Basename(SubSeq(cs, 1, Len(cs) - 1)), cs[Len(cs)])

\* lines 50-55
UrlFilename(url) ==
    LET parsed_path == UrlPath(Chars(url))
    IN  IF parsed_path # <<>> /\ parsed_path # <<"/">> THEN Basename(parsed_path) ELSE <<>>

\* line 32 and lines 60-75
PreferredName(preferred_filename, ctype) ==
    LET sanitized_preferred_name ==
           IF Truthy(preferred_filename)
           THEN sanitize_filename(Chars(preferred_filename.s))
           ELSE Placeholder
    IN  IF /\ ~Contains(sanitized_preferred_name, <<".">>)
           /\ Contains(ToLower(Chars(ctype)), Chars("zip"))
        THEN sanitized_preferred_name \o Chars(".zip")
        ELSE sanitized_preferred_name

\* a plausible slip: the URL path is tried before the header
LocalFilenameUrlFirst(url, preferred_filename, net) ==
    IF UrlFilename(url) # <<>> THEN sanitize_filename(UrlFilename(url))
    ELSE IF HeaderFilename(net.disposition) # <<>>
    THEN sanitize_filename(HeaderFilename(net.disposition))
    ELSE PreferredName(preferred_filename, net.ctype)

\* lines 41-76: local_filename
LocalFilename(url, preferred_filename, net) ==
    IF HeaderFilename(net.disposition) # <<>>
    THEN sanitize_filename(HeaderFilename(net.disposition))
    ELSE IF UrlFilename(url) # <<>> THEN sanitize_filename(UrlFilename(url))
    ELSE PreferredName(preferred_filename, net.ctype)

\* [ok: the return value, raised: the exception that escapes ("" for none),
\*  requested: whether requests.get was called, local_filename: the name
\*  chosen for the file (<<>> when the call does not get that far),
\*  written: whether the body was copied to the file]
download_file(url, download_folder, preferred_filename, row_number, net) ==
    IF Truthy(preferred_filename) /\ ~IsStr(preferred_filename)
    THEN \* line 32, outside the try: unicodedata.normalize rejects a non-str
         [ok |-> FALSE, raised |-> "TypeError", requested |-> FALSE,
          local_filename |-> <<>>, written |-> FALSE]
    ELSE LET exc == DownloadException(net)
         IN  [ok |-> DownloadSucceeds(net),
              raised |-> IF exc # "" /\ ~CaughtInDownload(exc) THEN exc ELSE "",
              requested |-> TRUE,
              local_filename |->
                 IF exc \in {"", "OSError"}
                 THEN LocalFilename(url, preferred_filename, net)
                 ELSE <<>>,
              written |-> exc = ""]

(***************************************************************************)
(* Spreadsheet rows.  A cell has a value and, in column A, the target of   *)
(* its hyperlink (None: no hyperlink, or a hyperlink without target).      *)
(***************************************************************************)
NumCols == 13

ColA == 1
ColB == 2
ColC == 3
ColD == 4
ColE == 5
ColF == 6
ColG == 7
ColI == 9
ColM == 13

Cell(value, target) == [value |-> value, target |-> target]

MkRow(a, target, b, c, d, e, f, g, i, m) ==
    <<Cell(a, target), Cell(b, None), Cell(c, None), Cell(d, None), Cell(e, None),
      Cell(f, None), Cell(g, None), Cell(None, None), Cell(i, None), Cell(None, None),
      Cell(None, None), Cell(None, None), Cell(m, None)>>

\* cell.hyperlink and cell.hyperlink.target
HasLink(row) == Truthy(row[ColA].target)

\* all(cell.value is None for cell in row)
IsEmptyRow(row) == \A k \in 1..Len(row) : IsNone(row[k].value)

(***************************************************************************)
(* process_excel_row (export.py 201-296)                                   *)
(***************************************************************************)
NoRow == <<>>

OrEmpty(v) == IF IsNone(v) THEN PyText("") ELSE v

\* a plausible slip: the separator is added although there is no creator
CreatorAlwaysSeparated(col_i, col_m) ==
    LET creator == IF Truthy(col_i) THEN PyStr(col_i) ELSE ""
    IN  IF Truthy(col_m) THEN creator \o " - modeler: " \o PyStr(col_m) ELSE creator

\* lines 276-278
Creator(col_i, col_m) ==
    LET creator == IF Truthy(col_i) THEN PyStr(col_i) ELSE ""
    IN  IF Truthy(col_m)
        THEN IF creator # "" THEN creator \o " - modeler: " \o PyStr(col_m)
             ELSE "modeler: " \o PyStr(col_m)
        ELSE creator

\* a plausible slip: an absent version is left empty like the other fields
VersionEmptyWhenAbsent(col_d) == IF IsNone(col_d) THEN "" ELSE PyStr(col_d)

\* line 275
Version(col_d) == IF IsNone(col_d) THEN "1.0" ELSE PyStr(col_d)

\* lines 281-291
DataRow(row, url) ==
    <<OrEmpty(row[ColA].value), PyText(url), OrEmpty(row[ColB].value),
      OrEmpty(row[ColC].value), PyText(Version(row[ColD].value)),
      OrEmpty(row[ColE].value), OrEmpty(row[ColF].value), OrEmpty(row[ColG].value),
      PyText(Creator(row[ColI].value, row[ColM].value))>>

\* a plausible slip: the catch-all narrowed to the lookup errors of 207-215
CatchesLookupErrorsOnly(raised) == raised \in {"IndexError", "KeyError"}

\* line 292: `except Exception` catches whatever the row raises
CaughtAtRowBoundary(raised) == TRUE

Skipped(stage, raised, url, requested, net, steps) ==
    [ret |-> NoRow, stage |-> stage, raised |-> raised,
     escaped |-> raised # "" /\ ~CaughtAtRowBoundary(raised), url |-> url,
     requested |-> requested, net |-> net, tsv_index |-> 0, steps |-> steps]

\* the calls made for a record, in the order they are made
LinkCheck == <<"link_check">>
LinkCheckAndResolve == <<"link_check", "resolve">>

\* a plausible slip: a failed download is tried once more
DownloadCallsWithRetry(dl) ==
    IF dl.ok THEN <<"download_file">> ELSE <<"download_file", "download_file">>

\* line 258: download_file is called once and its result decides
DownloadCalls(dl) == <<"download_file">>

\* lines 222-254: the URL conversion of a linked row
ResolveLinked(row) ==
    LET url == row[ColA].target.s
    IN  IF Contains(Chars(url), Chars("discord.com/channels"))
        THEN \* line 234 reads the global discord_token, which no line defines:
             \* the NameError comes before get_zip_file_url is entered
             [stage |-> "error", raised |-> "NameError", url |-> url, steps |-> LinkCheck]
        ELSE IF Contains(Chars(url), Chars("drive.google.com"))
        THEN LET url_converted == create_direct_download_link(url)
             IN  IF Truthy(url_converted)
                 THEN [stage |-> "resolved", raised |-> "", url |-> url_converted.s,
                       steps |-> LinkCheckAndResolve]
                 ELSE [stage |-> "resolve_failed", raised |-> "", url |-> url,
                       steps |-> LinkCheckAndResolve]
        ELSE [stage |-> "resolved", raised |-> "", url |-> url, steps |-> LinkCheck]

\* a plausible slip: the hyperlink check is dropped and the cell text is
\* taken for the URL
ResolveWithoutLinkCheck(row) ==
    IF Len(row) < NumCols
    THEN [stage |-> "error", raised |-> "IndexError", url |-> "", steps |-> <<>>]
    ELSE IF ~HasLink(row)
    THEN [stage |-> "resolved", raised |-> "", url |-> PyStr(row[ColA].value),
          steps |-> <<>>]
    ELSE ResolveLinked(row)

\* lines 207-254: the cells, the link check and the URL conversion
Resolve(row) ==
    IF Len(row) < NumCols
    THEN [stage |-> "error", raised |-> "IndexError", url |-> "", steps |-> <<>>]
    ELSE IF ~HasLink(row)
    THEN [stage |-> "no_link", raised |-> "", url |-> "", steps |-> LinkCheck]
    ELSE ResolveLinked(row)

\* [ret: the data row or NoRow (None), stage: where the row ended, raised: the
\*  exception raised inside the try, escaped: whether it got past line 292,
\*  url: the final URL, requested: whether the download request was sent,
\*  net: what the resource answers, tsv_index: filled in by xlsx_to_tsv]
process_excel_row(row_number, row, download_folder, net) ==
    LET link == Resolve(row)
    IN  IF link.stage # "resolved"
        THEN Skipped(link.stage, link.raised, link.url, FALSE, net, link.steps)
        ELSE LET dl == download_file(link.url, download_folder, row[ColA].value,
                                     row_number, net)
                 steps == link.steps \o DownloadCalls(dl)
             IN  IF dl.raised # ""
                 THEN Skipped("error", dl.raised, link.url, dl.requested, net, steps)
                 ELSE IF ~dl.ok
                 THEN Skipped("download_failed", "", link.url, dl.requested, net, steps)
                 ELSE [ret |-> DataRow(row, link.url), stage |-> "ok", raised |-> "",
                       escaped |-> FALSE, url |-> link.url, requested |-> TRUE,
                       net |-> net, tsv_index |-> 0, steps |-> steps]

(***************************************************************************)
(* The input sheets of the export run                                      *)
(***************************************************************************)
MaxRows == 2

UrlDirect == "https://example.org/files/cab.zip"
UrlDiscord == "https://discord.com/channels/11/22/33"
UrlDriveOk == "https://drive.google.com/file/d/1aB_cD-eF2gH3iJ4kL5mN6oP7/view"
UrlDriveBad == "https://drive.google.com/file/d/short/view"

T(x) == PyText(x)

EmptyRow == MkRow(None, None, None, None, None, None, None, None, None, None)
LinkOnlyRow == MkRow(None, T(UrlDirect), None, None, None, None, None, None, None, None)
NoLinkRow ==
    MkRow(T("Cab A"), None, T("Game"), T("2024"), T("2.1"), T("rom"), T("desc"),
          T("core"), T("ann"), T("bob"))
EmptyTargetRow ==
    MkRow(T("Cab B"), T(""), T("Game"), None, None, None, None, None, T("ann"), None)
FullRow ==
    MkRow(T("Cab C"), T(UrlDirect), T("Game"), T("2024"), T("2.1"), T("rom"), T("desc"),
          T("core"), T("ann"), T("bob"))
NoModelerRow ==
    MkRow(T("Cab D"), T(UrlDirect), T("Game"), T("2024"), None, T("rom"), T("desc"),
          T("core"), T("ann"), None)
NoCreatorRow ==
    MkRow(T("Cab E"), T(UrlDirect), T("Game"), T("2024"), PyInt(2), T("rom"), T("desc"),
          T("core"), None, T("bob"))
BareRow ==
    MkRow(None, T(UrlDirect), T("Game"), None, None, None, None, None, PyInt(0), None)
NumericLabelRow ==
    MkRow(PyInt(2024), T(UrlDirect), T("Game"), T("2024"), T("2.1"), T("rom"), T("desc"),
          T("core"), T("ann"), T("bob"))
DiscordRow ==
    MkRow(T("Cab F"), T(UrlDiscord), T("Game"), T("2024"), T("2.1"), T("rom"), T("desc"),
          T("core"), T("ann"), T("bob"))
DriveRow ==
    MkRow(T("Cab G"), T(UrlDriveOk), T("Game"), T("2024"), T("2.1"), T("rom"), T("desc"),
          T("core"), T("ann"), T("bob"))
DriveBadRow ==
    MkRow(T("Cab H"), T(UrlDriveBad), T("Game"), T("2024"), T("2.1"), T("rom"), T("desc"),
          T("core"), T("ann"), T("bob"))

RowSet ==
    {EmptyRow, LinkOnlyRow, NoLinkRow, EmptyTargetRow, FullRow, NoModelerRow,
     NoCreatorRow, BareRow, NumericLabelRow, DiscordRow, DriveRow, DriveBadRow}

\* iter_rows pads every row to the sheet's width; a sheet that ends before
\* column M yields rows on which row[12] does not exist
SheetWidths == {NumCols - 1, NumCols}

Sheets ==
    UNION {{[k \in 1..n |-> SubSeq(rows[k], 1, w)] : rows \in [1..n -> RowSet]} :
           <<n, w>> \in (0..MaxRows) \X SheetWidths}

(***************************************************************************)
(* main and xlsx_to_tsv (export.py 299-410)                                *)
(***************************************************************************)
ZeroCounters ==
    [rows_processed |-> 0, rows_written |-> 0, rows_skipped_no_link |-> 0,
     rows_skipped_url_fail |-> 0, rows_skipped_download_fail |-> 0,
     rows_skipped_other_error |-> 0, rows_skipped_empty |-> 0]

\* csv.writer turns every field into text: str(v), and '' for None
CsvRow(data_row) == [k \in 1..Len(data_row) |->
                        IF IsNone(data_row[k]) THEN "" ELSE PyStr(data_row[k])]

ExportInit ==
    /\ sheet \in Sheets
    /\ pc = "main"
    /\ folder = "untried"
    /\ row_pos = 0
    /\ tsv = <<>>
    /\ counters = ZeroCounters
    /\ results = <<>>
    /\ exit_status = -1

ExportIdle ==
    /\ sheet = <<>>
    /\ pc = "idle"
    /\ folder = "untried"
    /\ row_pos = 0
    /\ tsv = <<>>
    /\ counters = ZeroCounters
    /\ results = <<>>
    /\ exit_status = -1

Exit(code) ==
    /\ pc' = "exited"
    /\ exit_status' = code

\* main, lines 393-410: the argument count and the input file are checked
Main ==
    /\ pc = "main"
    /\ \E args_ok \in BOOLEAN, input_is_file \in BOOLEAN :
          IF args_ok /\ input_is_file
          THEN pc' = "load" /\ UNCHANGED exit_status
          ELSE Exit(1)
    /\ UNCHANGED <<sheet, folder, row_pos, tsv, counters, results>>

\* lines 312-315: FileNotFoundError (383) or any other error (386) exits 1
LoadWorkbook ==
    /\ pc = "load"
    /\ \E loaded \in {"ok", "not_found", "unreadable"} :
          IF loaded = "ok"
          THEN pc' = "mkdir" /\ UNCHANGED exit_status
          ELSE Exit(1)
    /\ UNCHANGED <<sheet, folder, row_pos, tsv, counters, results>>

\* a plausible slip: the failure is reported and the run goes on to the loop
WarnAndContinue == [pc |-> "loop", exit_status |-> -1]

\* lines 323-325: sys.exit(1).  SystemExit is not an Exception, so the
\* handler of line 386 lets it pass and the process ends with status 1
OnMakeDirsError == [pc |-> "exited", exit_status |-> 1]

\* lines 320-330: the download folder is created (os.makedirs with
\* exist_ok=True) and then the index is opened for writing; a failure to
\* open it reaches line 386
MakeDirs ==
    /\ pc = "mkdir"
    /\ \E made \in BOOLEAN, opened \in BOOLEAN :
          IF ~made
          THEN /\ folder' = "failed"
               /\ pc' = OnMakeDirsError.pc
               /\ exit_status' = OnMakeDirsError.exit_status
          ELSE /\ folder' = "created"
               /\ IF opened
                  THEN pc' = "loop" /\ UNCHANGED exit_status
                  ELSE Exit(1)
    /\ UNCHANGED <<sheet, row_pos, tsv, counters, results>>

\* a plausible slip: the record is counted in its bucket and not in
\* rows_processed (the increment of line 333 placed after the `continue`)
BumpBucketOnly(field) ==
    IF field = "rows_skipped_empty" THEN [counters EXCEPT ![field] = @ + 1]
    ELSE [counters EXCEPT !.rows_processed = @ + 1, ![field] = @ + 1]

\* line 333, and the one counter that lines 340, 350, 356 or 361 increment
Bump(field) == [counters EXCEPT !.rows_processed = @ + 1, ![field] = @ + 1]

\* lines 338-341
SkipEmptyRow ==
    /\ pc = "loop"
    /\ row_pos < Len(sheet)
    /\ IsEmptyRow(sheet[row_pos + 1])
    /\ row_pos' = row_pos + 1
    /\ counters' = Bump("rows_skipped_empty")
    /\ results' = Append(results, Skipped("empty", "", "", FALSE, NoNet, <<>>))
    /\ UNCHANGED <<sheet, pc, folder, tsv, exit_status>>

\* lines 345-361; row_idx starts at 2 (row 1 is the header).  `net` is what
\* the row's resource answers; a row that sends no request is taken once,
\* with a reachable resource.  An exception that escaped process_excel_row
\* would reach line 386 and end the run with status 1.
\* a plausible slip: the row is put in front of the rows written so far
WriteRowFirst(rows, data_row) == <<data_row>> \o rows

\* line 349, tsv_writer.writerow: the row goes after the rows written so far
WriteRow(rows, data_row) == Append(rows, data_row)

ProcessRow ==
    /\ pc = "loop"
    /\ row_pos < Len(sheet)
    /\ ~IsEmptyRow(sheet[row_pos + 1])
    /\ \E net \in Nets :
          LET row == sheet[row_pos + 1]
              r == process_excel_row(row_pos + 2, row, "downloads", net)
          IN  /\ r.requested \/ net = NetOk
              /\ IF r.escaped
                 THEN /\ Exit(1)
                      /\ results' = Append(results, r)
                      /\ counters' = [counters EXCEPT !.rows_processed = @ + 1]
                      /\ tsv' = tsv
                 ELSE /\ UNCHANGED <<pc, exit_status>>
                      /\ IF r.ret # NoRow
                         THEN /\ tsv' = WriteRow(tsv, CsvRow(r.ret))
                              /\ results' =
                                    Append(results, [r EXCEPT !.tsv_index = Len(tsv) + 1])
                              /\ counters' = Bump("rows_written")
                         ELSE /\ tsv' = tsv
                              /\ results' = Append(results, r)
                              /\ counters' = IF ~HasLink(row)
                                             THEN Bump("rows_skipped_no_link")
                                             ELSE Bump("rows_skipped_download_fail")
    /\ row_pos' = row_pos + 1
    /\ UNCHANGED <<sheet, folder>>

\* lines 364-380, then main returns: exit status 0
Finish ==
    /\ pc = "loop"
    /\ row_pos = Len(sheet)
    /\ Exit(0)
    /\ UNCHANGED <<sheet, folder, row_pos, tsv, counters, results>>

(***************************************************************************)
(* Spec: one run of export.py                                              *)
(***************************************************************************)
FnIdle == call = [fn |-> "none"]

DbIdle ==
    /\ db = [exists |-> FALSE]
    /\ run = [script |-> "none", exit |-> 0]

Init == ExportInit /\ FnIdle /\ DbIdle

Next ==
    \/ Main /\ UNCHANGED <<call, db, run>>
    \/ LoadWorkbook /\ UNCHANGED <<call, db, run>>
    \/ MakeDirs /\ UNCHANGED <<call, db, run>>
    \/ SkipEmptyRow /\ UNCHANGED <<call, db, run>>
    \/ ProcessRow /\ UNCHANGED <<call, db, run>>
    \/ Finish /\ UNCHANGED <<call, db, run>>

Spec == Init /\ [][Next]_vars

(***************************************************************************)
(* Properties of the export run (checked under Spec)                       *)
(***************************************************************************)
Consumed == 1..Len(results)

Written(i) == results[i].tsv_index > 0

TsvRowOf(i) == tsv[results[i].tsv_index]

IsDirect(row) ==
    /\ HasLink(row)
    /\ ~Contains(Chars(row[ColA].target.s), Chars("discord.com/channels"))
    /\ ~Contains(Chars(row[ColA].target.s), Chars("drive.google.com"))

AuxPopulated(row) ==
    /\ Len(row) = NumCols
    /\ \A k \in {ColB, ColC, ColD, ColE, ColF, ColG, ColI, ColM} : Truthy(row[k].value)

\* C1: a record whose column-A cell has no hyperlink target makes
\* process_excel_row return None, never reaches the download, and no row of
\* the output index belongs to it, whatever its other columns hold.
C1_NoLinkNoRow ==
    /\ \A i \in Consumed :
          ~HasLink(sheet[i]) =>
             /\ results[i].ret = NoRow
             /\ ~results[i].requested
             /\ ~Written(i)
    /\ \A k \in 1..Len(tsv) :
          \E i \in Consumed : results[i].tsv_index = k /\ HasLink(sheet[i])

C1_Witness ==
    \E i \in Consumed :
       /\ results[i].stage = "no_link"
       /\ AuxPopulated(sheet[i])
       /\ pc = "exited"
       /\ exit_status = 0

TimedOutOr404(net) ==
    \/ net.kind = "timeout"
    \/ net.kind = "response" /\ net.status = 404

\* C2: a record whose download times out or answers HTTP 404 gets no row in
\* the output index, no exception leaves process_excel_row, and the run goes
\* on to the end of the sheet with exit status 0.
C2_FailedDownloadNoRow ==
    \A i \in Consumed :
       (results[i].requested /\ TimedOutOr404(results[i].net)) =>
          /\ results[i].ret = NoRow
          /\ ~Written(i)
          /\ ~results[i].escaped
          /\ exit_status # 1
          /\ pc = "exited" => Len(results) = Len(sheet)

C2_Witness ==
    /\ Len(results) = 2
    /\ results[1].requested
    /\ TimedOutOr404(results[1].net)
    /\ results[2].stage = "ok"
    /\ exit_status = 0

\* C3: every record with a direct URL, a reachable resource and all
\* auxiliary fields populated has exactly one output row, whose Label is the
\* record's display label and whose Url is the hyperlink target unmodified.
C3_DirectRowWritten ==
    \A i \in Consumed :
       (IsDirect(sheet[i]) /\ AuxPopulated(sheet[i]) /\ results[i].net = NetOk) =>
          /\ Written(i)
          /\ TsvRowOf(i)[1] = PyStr(sheet[i][ColA].value)
          /\ TsvRowOf(i)[2] = sheet[i][ColA].target.s

CellText(v) == IF Truthy(v) THEN PyStr(v) ELSE ""

\* C4 as stated: the Creator field of every emitted row is col I followed by
\* " - modeler: <col M>" whenever col M is present, col I alone otherwise.
C4_CreatorSuffixAlways ==
    \A i \in Consumed :
       Written(i) =>
          LET col_i == sheet[i][ColI].value
              col_m == sheet[i][ColM].value
          IN  TsvRowOf(i)[9] =
                 CellText(col_i) \o
                    (IF Truthy(col_m) THEN " - modeler: " \o PyStr(col_m) ELSE "")

\* C4 amended: the Creator field is "<col I> - modeler: <col M>" when both
\* columns are present, col I alone when only col I is, "modeler: <col M>"
\* (no separator) when only col M is, and empty when neither is; a cell that
\* is empty or holds 0 counts as absent.
C4_Creator ==
    \A i \in Consumed :
       Written(i) =>
          LET col_i == sheet[i][ColI].value
              col_m == sheet[i][ColM].value
              field == TsvRowOf(i)[9]
          IN  /\ (Truthy(col_i) /\ Truthy(col_m)) =>
                    field = PyStr(col_i) \o " - modeler: " \o PyStr(col_m)
              /\ (Truthy(col_i) /\ ~Truthy(col_m)) => field = PyStr(col_i)
              /\ (~Truthy(col_i) /\ Truthy(col_m)) => field = "modeler: " \o PyStr(col_m)
              /\ (~Truthy(col_i) /\ ~Truthy(col_m)) => field = ""

C4_Witness ==
    /\ Len(results) = 2
    /\ Written(1) /\ Truthy(sheet[1][ColI].value) /\ Truthy(sheet[1][ColM].value)
    /\ Written(2) /\ ~Truthy(sheet[2][ColI].value) /\ Truthy(sheet[2][ColM].value)

\* C9: an error raised while one record is processed is caught at the record
\* boundary and becomes a skip: nothing is written for the record, the run
\* does not exit with status 1, and it ends only after every later record of
\* the sheet has been processed.
C9_ErrorsIsolated ==
    \A i \in Consumed :
       results[i].raised # "" =>
          /\ ~results[i].escaped
          /\ results[i].ret = NoRow
          /\ ~Written(i)
          /\ exit_status # 1
          /\ pc = "exited" => Len(results) = Len(sheet)

C9_Witness ==
    /\ Len(results) = 2
    /\ results[1].raised # ""
    /\ results[2].stage = "ok"
    /\ Written(2)
    /\ exit_status = 0

(***************************************************************************)
(* SpecFn: single calls of the helpers, on inputs drawn from bounded sets  *)
(***************************************************************************)
MaxNameLen == 3
MaxAttachments == 3
MaxExtraIdChars == 1

\* letters, a digit, the separators, a path character, and three non-ASCII
\* characters: e-acute, a CJK ideograph, the no-break space
SanAlphabet == {"a", "7", "_", ".", "-", " ", "/", "U+00E9", "U+65E5", "U+00A0"}

SanInputs == UNION {[1..n -> SanAlphabet] : n \in 0..MaxNameLen}

\* the attachment at position k of a message
AttachmentUrl(k) == "https://cdn.discordapp.com/attachments/" \o DecStr(k)

AttachmentNames == {PyText("cab.zip"), PyText("CAB.ZIP"), PyText("notes.txt"), None}

Messages ==
    UNION {{[k \in 1..n |->
               [url |-> IF has[k] THEN PyText(AttachmentUrl(k)) ELSE None,
                filename |-> names[k]]] :
            <<names, has>> \in [1..n -> AttachmentNames] \X [1..n -> BOOLEAN]} :
           n \in 0..MaxAttachments}

ApiCalls ==
    {[kind |-> "ok", attachments |-> m] : m \in Messages}
       \cup {[kind |-> k, attachments |-> <<>>] :
             k \in {"timeout", "http_error", "network_error", "malformed"}}

DiscordUrls ==
    {UrlDiscord, "https://discord.com/channels/@me/22/33",
     "https://discord.com/channels/11/22"}

\* n characters of an id, cycling through `seed`
IdText(seed, n) == [k \in 1..n |-> seed[((k - 1) % Len(seed)) + 1]]

IdLens == {3, MinIdLen - 1} \cup (MinIdLen..(MinIdLen + MaxExtraIdChars))

\* a drive URL: pre, then "<m1><id of n1 chars>", mid, "<m2><id of n2 chars>", suf
DriveParts ==
    [pre : {"https://drive.google.com/file", "https://drive.google.com/open?"},
     m1 : {"/d/", "id=", "/f/"}, n1 : IdLens,
     mid : {"/view?"},
     m2 : {"/d/", "id=", "/f/"}, n2 : IdLens,
     suf : {"", "/view"}]

Id1(parts) == Join(IdText(Chars("1aB_cD-eF2"), parts.n1))
Id2(parts) == Join(IdText(Chars("Zy9-xW_8vU7"), parts.n2))

DriveUrl(parts) ==
    parts.pre \o parts.m1 \o Id1(parts) \o parts.mid \o parts.m2 \o Id2(parts) \o parts.suf

FnInit ==
    \/ \E cs \in SanInputs :
          call = [fn |-> "sanitize_filename", arg |-> cs, done |-> FALSE, ret |-> <<>>]
    \/ \E u \in DiscordUrls, api \in ApiCalls :
          call = [fn |-> "get_zip_file_url", url |-> u, api |-> api, done |-> FALSE,
                  ret |-> None, called |-> FALSE, raised |-> ""]
    \/ \E parts \in DriveParts :
          call = [fn |-> "create_direct_download_link", parts |-> parts,
                  url |-> DriveUrl(parts), done |-> FALSE, ret |-> None,
                  row |-> Skipped("", "", "", FALSE, NoNet, <<>>)]

CallSanitize ==
    /\ call.fn = "sanitize_filename"
    /\ ~call.done
    /\ call' = [call EXCEPT !.done = TRUE, !.ret = sanitize_filename(call.arg)]

CallGetZipFileUrl ==
    /\ call.fn = "get_zip_file_url"
    /\ ~call.done
    /\ LET r == get_zip_file_url("token", call.url, call.api)
       IN  call' = [call EXCEPT !.done = TRUE, !.ret = r.ret, !.called = r.called,
                                !.raised = r.raised]

\* the link is converted on its own and as the hyperlink of a record whose
\* resource is reachable
CallCreateDirectDownloadLink ==
    /\ call.fn = "create_direct_download_link"
    /\ ~call.done
    /\ LET record == MkRow(T("Cab"), T(call.url), T("Game"), None, None, None, None,
                           None, None, None)
       IN  call' = [call EXCEPT
                       !.done = TRUE,
                       !.ret = create_direct_download_link(call.url),
                       !.row = process_excel_row(2, record, "downloads", NetOk)]

InitFn == FnInit /\ ExportIdle /\ DbIdle

NextFn ==
    \/ CallSanitize /\ UNCHANGED <<export_vars, db, run>>
    \/ CallGetZipFileUrl /\ UNCHANGED <<export_vars, db, run>>
    \/ CallCreateDirectDownloadLink /\ UNCHANGED <<export_vars, db, run>>

SpecFn == InitFn /\ [][NextFn]_vars

(***************************************************************************)
(* Properties of the helpers (checked under SpecFn)                        *)
(***************************************************************************)
Returned(fn) == call.fn = fn /\ call.done

Min(S) == CHOOSE x \in S : \A y \in S : x <= y

FilenameChars == Lower \cup Upper \cup Digits \cup {".", "_", "-"}

\* C7: for every text, sanitize_filename returns a non-empty name made of
\* [A-Za-z0-9._-] only, without whitespace and without two adjacent "_",
\* and the placeholder downloaded_file for the empty text; it is defined on
\* every input.
C7_Sanitized ==
    /\ (call.fn = "sanitize_filename" /\ ~call.done) => ENABLED CallSanitize
    /\ Returned("sanitize_filename") =>
          /\ call.ret # <<>>
          /\ \A k \in 1..Len(call.ret) : call.ret[k] \in FilenameChars
          /\ \A k \in 1..(Len(call.ret) - 1) : ~(call.ret[k] = "_" /\ call.ret[k + 1] = "_")
          /\ call.arg = <<>> => call.ret = Chars("downloaded_file")

C7_Witness ==
    /\ Returned("sanitize_filename")
    /\ Len(call.arg) = 3
    /\ call.arg[1] = "U+00E9"
    /\ call.arg[2] = " "
    /\ call.arg[3] = "_"
    /\ call.ret = <<"e", "_">>

Fetched == Returned("get_zip_file_url") /\ call.api.kind = "ok" /\ call.called

\* C5 as stated: for a message with a non-empty attachment list the result
\* is the URL of the first attachment whose filename ends in ".zip", and the
\* URL of the first attachment of the list when no filename ends in ".zip".
C5_FirstZipElseFirst ==
    (Fetched /\ call.api.attachments # <<>>) =>
       LET atts == call.api.attachments
           zips == {k \in 1..Len(atts) :
                      /\ IsStr(atts[k].filename)
                      /\ Len(atts[k].filename.s) >= 4
                      /\ SubSeq(atts[k].filename.s, Len(atts[k].filename.s) - 3,
                                Len(atts[k].filename.s)) = ".zip"}
       IN  IF zips # {} THEN call.ret = atts[Min(zips)].url ELSE call.ret = atts[1].url

\* the last four characters are ".zip" in any letter case
EndsInZipAnyCase(name) ==
    /\ Len(name) >= 4
    /\ SubSeq(name, Len(name) - 3, Len(name) - 3) = "."
    /\ SubSeq(name, Len(name) - 2, Len(name) - 2) \in {"z", "Z"}
    /\ SubSeq(name, Len(name) - 1, Len(name) - 1) \in {"i", "I"}
    /\ SubSeq(name, Len(name), Len(name)) \in {"p", "P"}

\* C5 amended: among the attachments that carry a URL, the result is the URL
\* of the first one whose filename ends in ".zip" in any letter case; when
\* there is none, the URL of the first attachment that carries a URL; and
\* None when no attachment carries a URL.
C5_FirstZipWithUrl ==
    (Fetched /\ call.api.attachments # <<>>) =>
       LET atts == call.api.attachments
           with_url == {k \in 1..Len(atts) : Truthy(atts[k].url)}
           zips == {k \in with_url :
                      IsStr(atts[k].filename) /\ EndsInZipAnyCase(atts[k].filename.s)}
       IN  IF zips # {} THEN call.ret = atts[Min(zips)].url
           ELSE IF with_url # {} THEN call.ret = atts[Min(with_url)].url
           ELSE call.ret = None

C5_Witness ==
    /\ Fetched
    /\ Len(call.api.attachments) = 3
    /\ call.api.attachments[1].filename = PyText("cab.zip")
    /\ call.api.attachments[1].url = None
    /\ call.api.attachments[2].filename = PyText("notes.txt")
    /\ call.api.attachments[3].filename = PyText("CAB.ZIP")
    /\ call.ret = PyText(AttachmentUrl(3))

IsMarker(m) == m \in {"/d/", "id="}

\* C6: a cloud-drive URL that holds "/d/<id>" or "id=<id>", <id> being at
\* least 25 characters of [a-zA-Z0-9_-], is rewritten to
\* https://drive.google.com/uc?export=download&id=<id> with the whole id (of
\* the leftmost such place); a URL without such an id yields None, and the
\* record that links to it is skipped before any download.
C6_DriveLink ==
    Returned("create_direct_download_link") =>
       LET a == call.parts
           valid1 == IsMarker(a.m1) /\ a.n1 >= 25
           valid2 == IsMarker(a.m2) /\ a.n2 >= 25
           direct == "https://drive.google.com/uc?export=download&id="
       IN  /\ valid1 => call.ret = PyText(direct \o Id1(a))
           /\ (~valid1 /\ valid2) => call.ret = PyText(direct \o Id2(a))
           /\ (valid1 \/ valid2) => (call.row.requested /\ call.row.url = call.ret.s)
           /\ (~valid1 /\ ~valid2) =>
                 /\ call.ret = None
                 /\ call.row.ret = NoRow
                 /\ call.row.stage = "resolve_failed"
                 /\ ~call.row.requested

C6_Witness ==
    /\ Returned("create_direct_download_link")
    /\ call.parts.m1 = "/f/"
    /\ call.parts.m2 = "id="
    /\ call.parts.n2 > 25
    /\ call.ret = PyText("https://drive.google.com/uc?export=download&id=" \o Id2(call.parts))
    /\ call.row.stage = "ok"

(***************************************************************************)
(* The SQLite database (create_db.py 41-67)                                *)
(*                                                                         *)
(* db.exists   the database file exists                                    *)
(* db.schema   the Catalog and Cabinet tables exist                        *)
(* db.Catalog  the committed Catalog rows, in rowid (insertion) order      *)
(* db.Cabinet  the committed Cabinet rows                                  *)
(* A script opens one connection, works in one implicit transaction and    *)
(* commits or rolls back; scripts run one after the other.                 *)
(***************************************************************************)
NoDb ==
    [exists |-> FALSE, schema |-> FALSE, Catalog |-> <<>>, Cabinet |-> {},
     BuildInfo |-> {}]
EmptyFile ==
    [exists |-> TRUE, schema |-> FALSE, Catalog |-> <<>>, Cabinet |-> {},
     BuildInfo |-> {}]

CatalogNames(catalog) == {catalog[k].CatalogName : k \in 1..Len(catalog)}

\* a plausible slip: the DELETE of line 70 is left out, rows accumulate
NoDelete(d) == d

\* a plausible slip: PRAGMA foreign_keys = ON (line 66) is left out, and the
\* Cabinet rows of the deleted catalogs stay
DeleteWithoutCascade(d) == [d EXCEPT !.Catalog = <<>>]

\* ON DELETE CASCADE with PRAGMA foreign_keys = ON: the Cabinet rows of a
\* deleted catalog go with it
DeleteAllCatalogs(d) == [d EXCEPT !.Catalog = <<>>, !.Cabinet = {}]

FatalFailures ==
    {"mkdir_failed", "db_missing", "config_unreadable", "connect_failed", "no_schema"}

\* a run: the script, its exit status (-1 while it runs), the failures it
\* met, the Catalog rows its DELETE removed and the Cabinet rows that went
\* with them (cascaded), and for load_cabinets.py the catalogs still to
\* process, what happened to each catalog processed so far (turns) and
\* overall_success
Finished(script, code, failures, deleted) ==
    [script |-> script, exit |-> code, failures |-> failures, deleted |-> deleted,
     cascaded |-> 0, todo |-> <<>>, turns |-> <<>>, overall_success |-> code = 0]

Idle == run.exit # -1

(***************************************************************************)
(* create_db.py: initialize_database and the main block                    *)
(***************************************************************************)
InitializeDatabase ==
    /\ Idle
    /\ \E made \in BOOLEAN, connected \in BOOLEAN :
          IF ~db.exists /\ ~made
          THEN \* lines 22-28: the directory cannot be created
               /\ run' = Finished("create_db", 1, {"mkdir_failed"}, 0)
               /\ db' = db
          ELSE IF ~connected
          THEN \* lines 83-86
               /\ run' = Finished("create_db", 1, {"connect_failed"}, 0)
               /\ db' = db
          ELSE \* CREATE TABLE IF NOT EXISTS keeps the rows of existing tables
               /\ run' = Finished("create_db", 0, {}, 0)
               /\ db' = [db EXCEPT !.exists = TRUE, !.schema = TRUE]

(***************************************************************************)
(* load_yaml.py: load_catalogs_from_yaml and the main block                *)
(*                                                                         *)
(* A config is the list under `marketplace`.  An entry is a mapping with   *)
(* CatalogName, Description and Url (None: key missing), or something that *)
(* is not a mapping (kind "scalar"), on which item.get raises.             *)
(***************************************************************************)
MaxCatalogEntries == 2

Entry(name, url) ==
    [kind |-> "map", CatalogName |-> name, Description |-> PyText("d"), Url |-> url]

ConfigEntries ==
    {Entry(PyText("c1"), PyText("f1")), Entry(PyText("c1"), None),
     Entry(PyText("c2"), PyText("f2")), Entry(None, PyText("f1")),
     [kind |-> "scalar", CatalogName |-> None, Description |-> None, Url |-> None]}

Configs == UNION {[1..n -> ConfigEntries] : n \in 0..MaxCatalogEntries}

\* what the sqlite3 module raises on the k-th executed INSERT (at 0: nothing)
InsertFaults(config) ==
    {[at |-> 0, error |-> "none"]}
       \cup {[at |-> k, error |-> e] :
             <<k, e>> \in (1..Len(config)) \X {"IntegrityError", "OperationalError", "Error"}}

\* the loop of lines 76-110 from entry k on.  st: the pending Catalog rows,
\* processed_keys, the number of INSERTs executed, has_errors, and whether a
\* non-sqlite exception left the loop (caught at line 126)
RECURSIVE InsertCatalogs(_, _, _, _)
InsertCatalogs(config, k, fault, st) ==
    IF k > Len(config) THEN st
    ELSE LET item == config[k]
         IN  IF item.kind # "map" THEN [st EXCEPT !.raised = TRUE]
             ELSE IF ~Truthy(item.CatalogName)
             THEN InsertCatalogs(config, k + 1, fault, [st EXCEPT !.skipped = TRUE])
             ELSE IF item.CatalogName \in st.keys
             THEN InsertCatalogs(config, k + 1, fault, [st EXCEPT !.skipped = TRUE])
             ELSE LET n == st.executed + 1
                      st1 == [st EXCEPT !.keys = @ \cup {item.CatalogName},
                                        !.executed = n]
                  IN  IF fault.at = n
                      THEN IF fault.error \in {"IntegrityError", "OperationalError"}
                           THEN [st1 EXCEPT !.has_errors = TRUE]
                           ELSE InsertCatalogs(config, k + 1, fault,
                                               [st1 EXCEPT !.has_errors = TRUE])
                      ELSE InsertCatalogs(config, k + 1, fault,
                              [st1 EXCEPT !.rows = Append(@,
                                  [CatalogName |-> item.CatalogName,
                                   Description |-> item.Description,
                                   url |-> item.Url])])

Failed(d, failures) ==
    [db |-> d, ok |-> FALSE, failures |-> failures, deleted |-> 0, cascaded |-> 0]

\* a plausible slip: the failure path commits what the transaction has done
\* so far, the DELETE included
CommitsPartial(before, pending) == pending

\* conn.rollback() of lines 118, 124 and 129: the DELETE, its cascade and the
\* INSERTs executed so far are undone together
RolledBack(before, pending) == before

\* [db: the database afterwards, ok: the return value, failures, deleted: the
\*  Catalog rows that the committed DELETE removed, cascaded: the Cabinet rows
\*  that went with them]
load_catalogs_from_yaml(d, yaml, connected, config, fault) ==
    IF ~d.exists THEN Failed(d, {"db_missing"})
    ELSE IF yaml # "ok" THEN Failed(d, {"config_unreadable"})
    ELSE IF ~connected THEN Failed(d, {"connect_failed"})
    ELSE IF ~d.schema THEN Failed(d, {"no_schema"})
    ELSE LET cleared == DeleteAllCatalogs(d)
             st == InsertCatalogs(config, 1, fault,
                      [rows |-> cleared.Catalog, keys |-> {}, executed |-> 0,
                       has_errors |-> FALSE, raised |-> FALSE, skipped |-> FALSE])
             notes == IF st.skipped THEN {"entry_skipped"} ELSE {}
             pending == [cleared EXCEPT !.Catalog = st.rows]
         IN  IF st.raised
             THEN Failed(RolledBack(d, pending), notes \cup {"entry_malformed"})
             ELSE IF st.has_errors
             THEN Failed(RolledBack(d, pending), notes \cup {"insert_error"})
             ELSE [db |-> pending, ok |-> TRUE, failures |-> notes,
                   deleted |-> Len(d.Catalog), cascaded |-> Cardinality(d.Cabinet)]

YamlStates == {"ok", "not_found", "parse_error", "no_marketplace", "not_a_list"}

\* lines 165-169: exit status 1 when the function returned False
LoadCatalogs(config, yaml, connected, fault) ==
    /\ Idle
    /\ LET r == load_catalogs_from_yaml(db, yaml, connected, config, fault)
       IN  /\ db' = r.db
           /\ run' = [Finished("load_yaml", IF r.ok THEN 0 ELSE 1, r.failures, r.deleted)
                        EXCEPT !.cascaded = r.cascaded]

LoadCatalogsFromYaml ==
    \E config \in Configs, yaml \in YamlStates, connected \in BOOLEAN :
       \E fault \in InsertFaults(config) :
          /\ (yaml = "ok" /\ connected) \/ (config = <<>> /\ fault.at = 0)
          /\ LoadCatalogs(config, yaml, connected, fault)

(***************************************************************************)
(* load_cabinets.py: load_cabinets_from_catalogs and the main block        *)
(*                                                                         *)
(* A feed is what the catalog's URL answers: the download fails, or it     *)
(* yields lines.  A line is a CSV row (its fields) or text on which        *)
(* csv.reader raises csv.Error, such as a bare carriage return.            *)
(***************************************************************************)
MaxFeedLines == 2

IDX_NAME == 0
IDX_URL_CABINET == 1
IDX_GAME == 2
IDX_CREATION_DATE == 3

\* line 24: max(IDX_NAME, IDX_URL_CABINET, IDX_GAME) + 1
MIN_REQUIRED_COLUMNS ==
    LET required == {IDX_NAME, IDX_URL_CABINET, IDX_GAME}
    IN  (CHOOSE m \in required : \A x \in required : x <= m) + 1

CsvLine(fields) == [kind |-> "row", fields |-> fields]
BadLine == [kind |-> "bad", fields |-> <<>>]

FeedLines ==
    {CsvLine(<<"cab1", "u1", "g1">>),
     CsvLine(<<" cab1 ", "u1b", "g1b", "2024">>),
     CsvLine(<<"cab2", "u2", "g2">>),
     CsvLine(<<"cab3", "u3">>),
     CsvLine(<<"  ", "u4", "g4">>),
     CsvLine(<<"cab1", "u5", "">>),
     CsvLine(<<"cab6", " ", "g6">>),
     BadLine}

Feeds ==
    {[kind |-> "failed", lines |-> <<>>]}
       \cup {[kind |-> "ok", lines |-> ls] :
             ls \in UNION {[1..n -> FeedLines] : n \in 0..MaxFeedLines}}

\* a plausible slip: the value is taken without .strip()
get_value_unstripped(row, index) ==
    IF index + 1 > Len(row) THEN None
    ELSE IF row[index + 1] # "" THEN PyText(row[index + 1]) ELSE None

\* lines 26-33
get_value_or_none(row, index) ==
    IF index + 1 > Len(row) THEN None
    ELSE LET value == Join(Strip(Chars(row[index + 1])))
         IN  IF value # "" THEN PyText(value) ELSE None

\* the loop of lines 127-193 from line k on.  st: the pending Cabinet rows,
\* processed_keys_in_catalog, and what happened to the rows so far
RECURSIVE InsertCabinets(_, _, _, _)
InsertCabinets(catalog_name, lines, k, st) ==
    IF k > Len(lines) THEN st
    ELSE IF lines[k].kind = "bad" THEN [st EXCEPT !.parse_failed = TRUE]
    ELSE LET row == lines[k].fields
             name == get_value_or_none(row, IDX_NAME)
             url_cabinet == get_value_or_none(row, IDX_URL_CABINET)
             game == get_value_or_none(row, IDX_GAME)
             rejected == [st EXCEPT !.rejected = TRUE]
         IN  IF Len(row) < MIN_REQUIRED_COLUMNS
             THEN InsertCabinets(catalog_name, lines, k + 1, rejected)
             ELSE IF ~Truthy(name) \/ ~Truthy(game) \/ ~Truthy(url_cabinet)
             THEN InsertCabinets(catalog_name, lines, k + 1, rejected)
             ELSE IF <<catalog_name, name>> \in st.keys
             THEN InsertCabinets(catalog_name, lines, k + 1, rejected)
             ELSE LET st1 == [st EXCEPT !.keys = @ \cup {<<catalog_name, name>>}]
                  IN  IF \E c \in st.cabinet :
                            c.CatalogName = catalog_name /\ c.Name = name
                      THEN \* PRIMARY KEY (CatalogName, Name): IntegrityError, line 184
                           InsertCabinets(catalog_name, lines, k + 1,
                                          [st1 EXCEPT !.conflict = TRUE])
                      ELSE InsertCabinets(catalog_name, lines, k + 1,
                              [st1 EXCEPT !.cabinet = @ \cup
                                  {[CatalogName |-> catalog_name, Name |-> name,
                                    Game |-> game, Url |-> url_cabinet,
                                    CreationDate |->
                                       get_value_or_none(row, IDX_CREATION_DATE)]}])

\* lines 108-111: nothing processed yet, on top of the rows in the table
LoopStart(cabinet) ==
    [cabinet |-> cabinet, keys |-> {}, rejected |-> FALSE, conflict |-> FALSE,
     parse_failed |-> FALSE]

\* a plausible slip: the rollback of lines 201 and 206 is left out, and the
\* rows inserted before the parse failure go in with the next commit
KeepPending(committed, pending) == pending

\* conn.rollback(): the rows inserted since the last commit are gone
Rollback(committed, pending) == committed

\* a plausible slip: a failed download clears overall_success as well
ClearsOnDownloadFailureToo(outcome) == outcome \notin {"parse_failed", "download_failed"}

\* overall_success is cleared by the handlers of lines 199-208 only
KeepsOverallSuccess(outcome) == outcome # "parse_failed"

\* lines 49-75
LoadCabinetsStart ==
    /\ Idle
    /\ \E connected \in BOOLEAN :
          /\ run' =
                IF ~db.exists THEN Finished("load_cabinets", 1, {"db_missing"}, 0)
                ELSE IF ~connected
                THEN Finished("load_cabinets", 1, {"connect_failed"}, 0)
                ELSE IF ~db.schema THEN Finished("load_cabinets", 1, {"no_schema"}, 0)
                ELSE IF db.Catalog = <<>> THEN Finished("load_cabinets", 0, {}, 0)
                ELSE [script |-> "load_cabinets", exit |-> -1, failures |-> {},
                      deleted |-> 0, cascaded |-> 0, todo |-> db.Catalog, turns |-> <<>>,
                      overall_success |-> TRUE]
    /\ db' = db

\* one turn of the loop of lines 78-208: the outcome for the catalog and the
\* Cabinet table after the commit (196) or the rollback (201, 206)
CatalogTurn(catalog, feed) ==
    IF ~Truthy(catalog.url) THEN [outcome |-> {"no_url"}, cabinet |-> db.Cabinet]
    ELSE IF feed.kind = "failed"
    THEN [outcome |-> {"download_failed"}, cabinet |-> db.Cabinet]
    ELSE IF feed.lines = <<>> THEN [outcome |-> {"empty_feed"}, cabinet |-> db.Cabinet]
    ELSE LET st == InsertCabinets(catalog.CatalogName, feed.lines, 1,
                                  LoopStart(db.Cabinet))
             notes == (IF st.rejected THEN {"row_rejected"} ELSE {})
                         \cup (IF st.conflict THEN {"insert_conflict"} ELSE {})
         IN  IF st.parse_failed
             THEN [outcome |-> notes \cup {"parse_failed"},
                   cabinet |-> Rollback(db.Cabinet, st.cabinet)]
             ELSE [outcome |-> notes, cabinet |-> st.cabinet]

LoadCabinetsCatalog ==
    /\ run.exit = -1
    /\ run.todo # <<>>
    /\ \E feed \in Feeds :
          LET turn == CatalogTurn(Head(run.todo), feed)
          IN  /\ Truthy(Head(run.todo).url) \/ feed.kind = "failed"
              /\ db' = [db EXCEPT !.Cabinet = turn.cabinet]
              /\ run' = [run EXCEPT
                            !.todo = Tail(@),
                            !.turns = Append(@,
                               [CatalogName |-> Head(run.todo).CatalogName,
                                outcome |-> turn.outcome,
                                inserted |-> Cardinality(turn.cabinet \ db.Cabinet)]),
                            !.failures = @ \cup turn.outcome,
                            !.overall_success =
                               @ /\ \A o \in turn.outcome : KeepsOverallSuccess(o)]

\* lines 211-233 and 256-260
LoadCabinetsFinish ==
    /\ run.exit = -1
    /\ run.todo = <<>>
    /\ run' = [run EXCEPT !.exit = IF run.overall_success THEN 0 ELSE 1]
    /\ db' = db

(***************************************************************************)
(* update_build_info.py: extract_major_version, update_build_info and the  *)
(* main block.  Text is a sequence of characters here.                     *)
(***************************************************************************)
\* a plausible slip: one leading 'v' is removed (removeprefix), not all
StripOneV(cs) == IF cs # <<>> /\ Head(cs) = "v" THEN Tail(cs) ELSE cs

\* line 24: tag_string.lstrip('v')
RECURSIVE LStripV(_)
LStripV(cs) == IF cs # <<>> /\ Head(cs) = "v" THEN LStripV(Tail(cs)) ELSE cs

\* lines 27-29: cleaned_tag.split('.')[0]
RECURSIVE FirstPart(_)
FirstPart(cs) ==
    IF cs = <<>> \/ Head(cs) = "." THEN <<>> ELSE <<Head(cs)>> \o FirstPart(Tail(cs))

\* lines 8-41
extract_major_version(tag_string) ==
    IF tag_string = <<>> THEN <<>>
    ELSE LET cleaned_tag == LStripV(tag_string)
             major_version == FirstPart(cleaned_tag)
         IN  IF major_version # <<>> THEN major_version ELSE tag_string

\* lines 43-98.  sqlite3.connect creates the file when it is missing.  The
\* INSERT OR REPLACE of line 78 binds extract_major_version(full_tag) as
\* BuildTag and names the table BuildInfo; initialize_database creates the
\* tables Catalog and Cabinet (create_db.py 41-67) and no statement of the
\* repository creates BuildInfo, so the INSERT raises
\* sqlite3.OperationalError, caught at line 85: rollback, return False.
update_build_info(d, full_tag, commit_sha, timestamp, connected) ==
    LET opened == IF d.exists THEN d ELSE EmptyFile
    IN  IF ~connected THEN Failed(d, {"connect_failed"})
        ELSE Failed(opened, {"no_schema"})

BuildTags == {Chars("v1.2.3"), Chars("2.0")}

\* lines 101-118: exit status 1 when the function returned False
UpdateBuildInfo ==
    /\ Idle
    /\ \E full_tag \in BuildTags, connected \in BOOLEAN :
          LET r == update_build_info(db, full_tag, "sha", "ts", connected)
          IN  /\ db' = r.db
              /\ run' = Finished("update_build_info", IF r.ok THEN 0 ELSE 1,
                                 r.failures, 0)

(***************************************************************************)
(* SpecDb: the database scripts, run one after the other                   *)
(***************************************************************************)
InitDb ==
    /\ db \in {NoDb, EmptyFile}
    /\ run = Finished("none", 0, {}, 0)
    /\ FnIdle
    /\ ExportIdle

NextDb ==
    \/ InitializeDatabase /\ UNCHANGED <<export_vars, call>>
    \/ LoadCatalogsFromYaml /\ UNCHANGED <<export_vars, call>>
    \/ LoadCabinetsStart /\ UNCHANGED <<export_vars, call>>
    \/ LoadCabinetsCatalog /\ UNCHANGED <<export_vars, call>>
    \/ LoadCabinetsFinish /\ UNCHANGED <<export_vars, call>>
    \/ UpdateBuildInfo /\ UNCHANGED <<export_vars, call>>

SpecDb == InitDb /\ [][NextDb]_vars

(***************************************************************************)
(* Properties of the database scripts                                      *)
(***************************************************************************)
NoFault == [at |-> 0, error |-> "none"]

\* the rows a config asks for: one per entry that has a CatalogName, the
\* first entry of each name
ConfigRows(config) ==
    {[CatalogName |-> config[k].CatalogName, Description |-> config[k].Description,
      url |-> config[k].Url] :
        k \in {i \in 1..Len(config) :
                 /\ Truthy(config[i].CatalogName)
                 /\ \A j \in 1..(i - 1) : config[j].CatalogName # config[i].CatalogName}}

TableRows(catalog) == {catalog[k] : k \in 1..Len(catalog)}

\* C8: a successful load_catalogs_from_yaml leaves in the Catalog table
\* exactly the rows of the config, one row each, whatever the table held
\* before; and loading the same config again right after leaves the table as
\* it is.  (A load in which an INSERT fails is rolled back and is not
\* successful, so the successful loads are the loads without a fault.)
C8_CatalogReplaced ==
    [][(Idle /\ run'.script = "load_yaml" /\ run'.exit = 0) =>
          \A config \in Configs :
             LoadCatalogs(config, "ok", TRUE, NoFault) =>
                /\ TableRows(db'.Catalog) = ConfigRows(config)
                /\ Len(db'.Catalog) = Cardinality(ConfigRows(config))
                /\ load_catalogs_from_yaml(db', "ok", TRUE, config, NoFault).db.Catalog
                      = db'.Catalog]_vars

\* a successful load that replaced earlier rows by the rows of its config
C8_Witness ==
    /\ run.script = "load_yaml"
    /\ run.exit = 0
    /\ run.deleted > 0
    /\ db.Catalog # <<>>

ScriptFinished ==
    /\ run.script \in {"create_db", "load_yaml", "load_cabinets"}
    /\ run.exit # -1

Aborting == FatalFailures \cup {"parse_failed", "insert_error", "entry_malformed"}

RowsOf(cabinet, catalog_name) == {c \in cabinet : c.CatalogName = catalog_name}

FeedFailed(outcome) == outcome \cap {"download_failed", "parse_failed"} # {}

\* C11: in load_cabinets_from_catalogs a catalog whose feed fails to download
\* or to parse leaves the Cabinet table as it was before that catalog, rows
\* committed for the catalogs before it included; no turn removes a Cabinet
\* row or touches the rows of another catalog; and the run ends only after
\* every catalog read from the Catalog table has had its turn.
C11_FeedFailureIsolated ==
    [][(run.script = "load_cabinets" /\ run.exit = -1) =>
          /\ db.Cabinet \subseteq db'.Cabinet
          /\ run'.exit # -1 =>
                /\ Len(run.turns) = Len(db.Catalog)
                /\ \A k \in 1..Len(run.turns) :
                      run.turns[k].CatalogName = db.Catalog[k].CatalogName
          /\ run.todo # <<>> =>
                LET name == Head(run.todo).CatalogName
                    turn == run'.turns[Len(run'.turns)]
                IN  /\ turn.CatalogName = name
                    /\ \A other \in CatalogNames(db.Catalog) \ {name} :
                          RowsOf(db'.Cabinet, other) = RowsOf(db.Cabinet, other)
                    /\ FeedFailed(turn.outcome) => db'.Cabinet = db.Cabinet]_vars

\* a finished run in which a catalog loaded rows, a later catalog's feed
\* failed to parse, and the rows of the first are in the table
C11_Witness ==
    /\ run.script = "load_cabinets"
    /\ run.exit # -1
    /\ \E i, j \in 1..Len(run.turns) :
          /\ i < j
          /\ run.turns[i].inserted > 0
          /\ "parse_failed" \in run.turns[j].outcome
          /\ RowsOf(db.Cabinet, run.turns[i].CatalogName) # {}
          /\ RowsOf(db.Cabinet, run.turns[j].CatalogName) = {}

(***************************************************************************)
(* SpecUnit: single calls of the remaining helpers, on inputs drawn from   *)
(* bounded sets                                                            *)
(***************************************************************************)
FeedRows == {f.lines : f \in {g \in Feeds : g.kind = "ok"}}

StoredCabinet(catalog_name, name) ==
    [CatalogName |-> PyText(catalog_name), Name |-> PyText(name), Game |-> PyText("old"),
     Url |-> PyText("old"), CreationDate |-> None]

\* the Cabinet table before the feed is read
CabinetsBefore == {{}, {StoredCabinet("c1", "cab1")}, {StoredCabinet("c2", "cab1")}}

MaxTagLen == 4

DownloadUrls == {"http://h/a/f.zip", "http://h/dir/", "http://h", "http://h/uc?id=x/y.bin"}

PreferredNames == {None, PyText(""), PyText("My Cab"), PyText("cab.v2"), PyInt(1942)}

Dispositions ==
    {None, PyText("inline"), PyText("attachment; filename=\"h d.zip\""),
     PyText("attachment; filename=u.bin; size=3"), PyText("attachment; filename=\"\"")}

ContentTypes == {"", "Application/ZIP", "application/octet-stream"}

Statuses == {200, 300, 404, 500}

DownloadNets ==
    {NetTimeout, NetError}
       \cup {Response(k, status, d, c) :
               <<k, status, d, c>> \in
                  {"response", "os_error"} \X Statuses \X Dispositions \X ContentTypes}

NotCalled ==
    [ok |-> FALSE, raised |-> "", requested |-> FALSE, local_filename |-> <<>>,
     written |-> FALSE]

TagAlphabet == {"v", "1", "2", "."}

VersionTags == UNION {[1..n -> TagAlphabet] : n \in 0..MaxTagLen}

UnitInit ==
    \/ \E lines \in FeedRows, before \in CabinetsBefore :
          call = [fn |-> "InsertCabinets", catalog_name |-> PyText("c1"),
                  lines |-> lines, before |-> before, done |-> FALSE,
                  st |-> LoopStart(before)]
    \/ \E tag \in VersionTags :
          call = [fn |-> "extract_major_version", tag |-> tag, done |-> FALSE,
                  ret |-> <<>>]
    \/ \E url \in DownloadUrls, preferred \in PreferredNames, net \in DownloadNets :
          call = [fn |-> "download_file", url |-> url, preferred |-> preferred,
                  net |-> net, done |-> FALSE, r |-> NotCalled]

\* the row loop of one feed, up to the commit or the parse failure
CallInsertCabinets ==
    /\ call.fn = "InsertCabinets"
    /\ ~call.done
    /\ call' = [call EXCEPT
                   !.done = TRUE,
                   !.st = InsertCabinets(call.catalog_name, call.lines, 1,
                                         LoopStart(call.before))]

\* update_build_info.py line 58
CallExtractMajorVersion ==
    /\ call.fn = "extract_major_version"
    /\ ~call.done
    /\ call' = [call EXCEPT !.done = TRUE, !.ret = extract_major_version(call.tag)]

CallDownloadFile ==
    /\ call.fn = "download_file"
    /\ ~call.done
    /\ call' = [call EXCEPT
                   !.done = TRUE,
                   !.r = download_file(call.url, "downloads", call.preferred, 2,
                                       call.net)]

InitUnit == UnitInit /\ ExportIdle /\ DbIdle

NextUnit ==
    \/ CallInsertCabinets /\ UNCHANGED <<export_vars, db, run>>
    \/ CallExtractMajorVersion /\ UNCHANGED <<export_vars, db, run>>
    \/ CallDownloadFile /\ UNCHANGED <<export_vars, db, run>>

SpecUnit == InitUnit /\ [][NextUnit]_vars

(***************************************************************************)
(* Properties of the helpers checked under SpecUnit                        *)
(***************************************************************************)
\* the lines read before csv.reader fails
LinesRead(lines) == {k \in 1..Len(lines) : \A j \in 1..k : lines[j].kind = "row"}

Trimmed(fields, index) ==
    IF index + 1 <= Len(fields) THEN Join(Strip(Chars(fields[index + 1]))) ELSE ""

Complete(fields) ==
    /\ Len(fields) >= 3
    /\ \A index \in {IDX_NAME, IDX_URL_CABINET, IDX_GAME} : Trimmed(fields, index) # ""

SameName(lines, j, k) ==
    Trimmed(lines[j].fields, IDX_NAME) = Trimmed(lines[k].fields, IDX_NAME)

TextOrNone(x) == IF x = "" THEN None ELSE PyText(x)

CabinetOf(catalog_name, fields) ==
    [CatalogName |-> catalog_name, Name |-> PyText(Trimmed(fields, IDX_NAME)),
     Game |-> PyText(Trimmed(fields, IDX_GAME)),
     Url |-> PyText(Trimmed(fields, IDX_URL_CABINET)),
     CreationDate |-> TextOrNone(Trimmed(fields, IDX_CREATION_DATE))]

Inserted == call.st.cabinet \ call.before

\* C12 as stated: every Cabinet row inserted from a feed comes from a row
\* with at least 3 columns and a non-empty trimmed Name, Game and Url whose
\* (CatalogName, Name) occurs in no earlier row of the same feed.
C12_NoEarlierRowOfThatName ==
    Returned("InsertCabinets") =>
       \A c \in Inserted :
          \E k \in LinesRead(call.lines) :
             /\ c = CabinetOf(call.catalog_name, call.lines[k].fields)
             /\ Complete(call.lines[k].fields)
             /\ \A j \in 1..(k - 1) : ~SameName(call.lines, j, k)

\* C12, amended: the rows inserted from a feed are exactly the rows with at
\* least 3 columns and a non-empty trimmed Name, Game and Url, whose
\* (CatalogName, Name) occurs in no earlier row that passed these checks and
\* is not in the table already; every other row is rejected, and a rejected
\* row does not stop the rows after it.  Nothing already in the table goes.
C12_RowsRejected ==
    Returned("InsertCabinets") =>
       /\ call.before \subseteq call.st.cabinet
       /\ Inserted =
             {CabinetOf(call.catalog_name, call.lines[k].fields) :
                k \in {i \in LinesRead(call.lines) :
                         /\ Complete(call.lines[i].fields)
                         /\ \A j \in 1..(i - 1) :
                               Complete(call.lines[j].fields)
                                  => ~SameName(call.lines, j, i)
                         /\ \A c \in call.before :
                               ~(/\ c.CatalogName = call.catalog_name
                                 /\ c.Name.s = Trimmed(call.lines[i].fields, IDX_NAME))}}

\* a feed whose first row is rejected and whose second row is inserted
C12_Witness ==
    /\ Returned("InsertCabinets")
    /\ Len(call.lines) = 2
    /\ ~Complete(call.lines[1].fields)
    /\ call.st.rejected
    /\ Inserted = {CabinetOf(call.catalog_name, call.lines[2].fields)}

\* C14 as stated: after a run of update_build_info.py on a database created
\* by initialize_database the BuildInfo table holds exactly one row.
C14_SingleBuildRow ==
    (run.script = "update_build_info" /\ db.schema) => Cardinality(db.BuildInfo) = 1

\* the text before the first '.' of cs[from..]
UpToDot(cs, from) ==
    LET dots == {m \in from..Len(cs) : cs[m] = "."}
        stop == IF dots = {} THEN Len(cs) + 1 ELSE Min(dots)
    IN  SubSeq(cs, from, stop - 1)

\* C13 as stated: the BuildTag is the tag with a leading 'v' stripped and
\* only the first dot-separated component kept.
C13_LeadingVFirstComponent ==
    Returned("extract_major_version") =>
       call.ret = UpToDot(call.tag, IF call.tag # <<>> /\ call.tag[1] = "v" THEN 2 ELSE 1)

\* C13, amended: the BuildTag is the first dot-separated component of the tag
\* after every leading 'v' is stripped; when that component is empty (the tag
\* is empty, or only 'v's, or a '.' follows the leading 'v's) the BuildTag
\* is the tag unchanged.
C13_MajorVersion ==
    Returned("extract_major_version") =>
       \E n \in 0..Len(call.tag) :
          /\ \A i \in 1..n : call.tag[i] = "v"
          /\ n = Len(call.tag) \/ call.tag[n + 1] # "v"
          /\ call.ret = IF UpToDot(call.tag, n + 1) # <<>>
                        THEN UpToDot(call.tag, n + 1)
                        ELSE call.tag

\* the tag v1.2 gives 1
C13_Witness ==
    /\ Returned("extract_major_version")
    /\ call.tag = Chars("v1.2")
    /\ call.ret = Chars("1")

(***************************************************************************)
(* Further properties of one export.py run (checked under Spec)            *)
(***************************************************************************)
IsChatLink(row) ==
    /\ Len(row) = NumCols
    /\ HasLink(row)
    /\ Contains(Chars(row[ColA].target.s), Chars("discord.com/channels"))
    /\ DiscordUrlMatches(row[ColA].target.s)

\* C15 as stated: a record whose link is a chat-attachment URL is resolved
\* through get_zip_file_url and, the download of the attachment succeeding,
\* is emitted with the resolved attachment URL as its Url field.  (The
\* message endpoint is never asked, so what the message holds plays no part.)
C15_ChatLinkEmitted ==
    \A i \in Consumed :
       (IsChatLink(sheet[i]) /\ results[i].net = NetOk) =>
          /\ Written(i)
          /\ TsvRowOf(i)[2] # sheet[i][ColA].target.s

(***************************************************************************)
(* download_file on its own (checked under SpecUnit)                       *)
(***************************************************************************)
Requested == Returned("download_file") /\ call.r.requested

\* C16 as stated: download_file returns False and raises nothing when the
\* request times out, the response has a status outside 200-299, the network
\* fails or the file system fails; it returns True only after the body was
\* written.
C16_AnyNon2xxFails ==
    Requested =>
       /\ call.r.raised = ""
       /\ call.r.ok => call.r.written
       /\ (\/ call.net.kind \in {"timeout", "network_error", "os_error"}
           \/ call.net.status \notin 200..299) => ~call.r.ok

\* C16, amended: download_file raises nothing once the request is sent; it
\* returns False when the request times out, the response has a status from
\* 400 to 599, the network fails or the file system fails; it returns True
\* only after the body was written, which includes a response with a status
\* below 400 that is not 2xx (a redirect that is not followed).
C16_DownloadFailures ==
    Requested =>
       /\ call.r.raised = ""
       /\ call.r.ok => call.r.written
       /\ (\/ call.net.kind \in {"timeout", "network_error", "os_error"}
           \/ call.net.status \in 400..599) <=> ~call.r.ok

\* the file system fails after a good response: False, nothing raised
C16_Witness ==
    /\ Requested
    /\ call.net.kind = "os_error"
    /\ call.net.status = 200
    /\ ~call.r.ok
    /\ call.r.raised = ""

StepOrder == <<"link_check", "resolve", "download_file">>

Rank(step) == CHOOSE k \in 1..Len(StepOrder) : StepOrder[k] = step

NeedsResolution(row) ==
    \/ Contains(Chars(row[ColA].target.s), Chars("discord.com/channels"))
    \/ Contains(Chars(row[ColA].target.s), Chars("drive.google.com"))

\* C18: the calls made for a record come in the order link check,
\* resolution, download, each at most once; download_file is called only for
\* a record that has a link and, when the link needs resolving, after the
\* resolution gave a URL; a record that fails the link check or the
\* resolution has no download_file call, no request and no output row.
C18_StepsInOrder ==
    \A i \in Consumed :
       LET steps == results[i].steps
           row == sheet[i]
           downloads == {k \in 1..Len(steps) : steps[k] = "download_file"}
       IN  /\ \A k \in 1..Len(steps) : steps[k] \in {StepOrder[j] : j \in 1..Len(StepOrder)}
           /\ \A j, k \in 1..Len(steps) : j < k => Rank(steps[j]) < Rank(steps[k])
           /\ Cardinality(downloads) <= 1
           /\ results[i].requested => downloads # {}
           /\ downloads # {} =>
                 /\ HasLink(row)
                 /\ steps[1] = "link_check"
                 /\ NeedsResolution(row) =>
                       /\ steps[2] = "resolve"
                       /\ results[i].url = create_direct_download_link(row[ColA].target.s).s
           /\ results[i].stage \in {"no_link", "resolve_failed"} =>
                 /\ downloads = {}
                 /\ ~results[i].requested
                 /\ ~Written(i)

\* a run with a record whose download fails after one request and a record
\* whose resolution fails
C18_Witness ==
    /\ pc = "exited"
    /\ \E i, j \in Consumed :
          /\ results[i].stage = "download_failed"
          /\ results[i].steps = <<"link_check", "download_file">>
          /\ results[j].stage = "resolve_failed"
          /\ results[j].steps = <<"link_check", "resolve">>

\* the records processed successfully so far, in input order
RECURSIVE RowsOfSuccesses(_)
RowsOfSuccesses(k) ==
    IF k = 0 THEN <<>>
    ELSE IF results[k].stage = "ok"
    THEN Append(RowsOfSuccesses(k - 1), CsvRow(results[k].ret))
    ELSE RowsOfSuccesses(k - 1)

\* C19: at every point of the run the output index holds the rows of the
\* records processed successfully so far, one each, in input order, and
\* nothing else.
C19_IndexInInputOrder ==
    /\ tsv = RowsOfSuccesses(Len(results))
    /\ \A i \in Consumed : Written(i) <=> results[i].stage = "ok"
    /\ \A i, j \in Consumed :
          (i < j /\ Written(i) /\ Written(j)) => results[i].tsv_index < results[j].tsv_index

\* a finished run that wrote two different rows
C19_Witness ==
    /\ pc = "exited"
    /\ exit_status = 0
    /\ Len(tsv) = 2
    /\ tsv[1] # tsv[2]

(***************************************************************************)
(* get_zip_file_url's failures (checked under SpecFn)                      *)
(***************************************************************************)
\* C20: get_zip_file_url raises nothing; it returns None when the URL has
\* not the shape channels/<guild or @me>/<channel>/<message>, when the
\* message has no attachments, and when the remote call times out, answers
\* an HTTP error, answers a malformed payload or fails on the network; for a
\* URL that has not the shape no request is sent.
C20_ResolutionFailed ==
    Returned("get_zip_file_url") =>
       /\ call.raised = ""
       /\ ~DiscordUrlMatches(call.url) => (call.ret = None /\ ~call.called)
       /\ call.api.kind \in {"timeout", "http_error", "network_error", "malformed"}
             => call.ret = None
       /\ (call.api.kind = "ok" /\ call.api.attachments = <<>>) => call.ret = None

\* a well-formed URL whose message endpoint answers a malformed payload
C20_Witness ==
    /\ Returned("get_zip_file_url")
    /\ DiscordUrlMatches(call.url)
    /\ call.api.kind = "malformed"
    /\ call.called
    /\ call.ret = None


(***************************************************************************)
(* Further properties of the export run (checked under Spec)               *)
(***************************************************************************)
\* C21: when the download folder cannot be created, xlsx_to_tsv ends the
\* process with a status other than 0 before any record is processed: no
\* record is consumed, no download is attempted, no row is written to the
\* output index.
C21_NoFolderNoRun ==
    folder = "failed" =>
       /\ pc = "exited"
       /\ exit_status \notin {-1, 0}
       /\ row_pos = 0
       /\ results = <<>>
       /\ tsv = <<>>
       /\ counters = ZeroCounters

\* the folder could not be created for a sheet that holds a record with a
\* direct link, which a run with a folder would have downloaded
C21_Witness ==
    /\ folder = "failed"
    /\ exit_status = 1
    /\ \E i \in 1..Len(sheet) : IsDirect(sheet[i]) /\ AuxPopulated(sheet[i])
    /\ results = <<>>


AuxColumns == {ColB, ColC, ColE, ColF, ColG}

\* C22: in every row of the output index the Version field is "1.0" when
\* column D of the record is None and str() of column D's value otherwise;
\* the label and the fields of columns B, C, E, F, G are the empty string
\* when the cell is None, and the creator field is the empty string when
\* columns I and M are both None (or otherwise falsy, as the code tests).
C22_VersionDefault ==
    \A i \in Consumed :
       Written(i) =>
          LET row == sheet[i]
              out == TsvRowOf(i)
          IN  /\ Len(out) = 9
              /\ out[5] = IF IsNone(row[ColD].value) THEN "1.0"
                          ELSE PyStr(row[ColD].value)
              /\ IsNone(row[ColA].value) => out[1] = ""
              \* the URL sits between the label and column B: column k is
              \* field k + 1
              /\ \A k \in AuxColumns : IsNone(row[k].value) => out[k + 1] = ""
              /\ (~Truthy(row[ColI].value) /\ ~Truthy(row[ColM].value)) => out[9] = ""

\* the index holds the row of a record without version and without
\* modeler, the row of a record whose version is the number 2, and the row
\* of a record with columns C to G absent and no creator
C22_Witness ==
    \E i, j, b \in Consumed :
       /\ Written(b)
       /\ \A k \in AuxColumns \ {ColB} : IsNone(sheet[b][k].value)
       /\ ~Truthy(sheet[b][ColI].value)
       /\ TsvRowOf(b)[9] = ""
       /\ Written(i)
       /\ IsNone(sheet[i][ColD].value)
       /\ IsNone(sheet[i][ColM].value)
       /\ TsvRowOf(i)[5] = "1.0"
       /\ Written(j)
       /\ sheet[j][ColD].value = PyInt(2)
       /\ TsvRowOf(j)[5] = "2"


EmptyRecords == {i \in Consumed : IsEmptyRow(sheet[i])}

UnlinkedRecords == {i \in Consumed : ~IsEmptyRow(sheet[i]) /\ ~HasLink(sheet[i])}

C24_CabinetsReferCatalogs ==
    /\ \A c \in db.Cabinet : c.CatalogName \in CatalogNames(db.Catalog)
    /\ \A c1, c2 \in db.Cabinet :
          (c1.CatalogName = c2.CatalogName /\ c1.Name = c2.Name) => c1 = c2
    /\ \A i, j \in 1..Len(db.Catalog) :
          db.Catalog[i].CatalogName = db.Catalog[j].CatalogName => i = j
    /\ (run.script = "load_yaml" /\ run.exit = 0) => db.Cabinet = {}

\* the config was reloaded with success over a table that had Cabinet rows:
\* the catalogs are back and their Cabinet rows are gone
C24_Witness ==
    /\ run.script = "load_yaml"
    /\ run.exit = 0
    /\ run.deleted > 0
    /\ run.cascaded > 0
    /\ db.Catalog # <<>>
    /\ db.Cabinet = {}

\* C25: a call of load_catalogs_from_yaml that returns False (exit status 1
\* of load_yaml.py) leaves the database as it was before the call: the
\* Catalog and Cabinet tables hold the rows they held, no file and no table
\* is created.
C25_FailedLoadChangesNothing ==
    [][(Idle /\ run'.script = "load_yaml" /\ run'.exit # 0) => db' = db]_vars

\* a load failed on an INSERT after its DELETE, and the Catalog rows and the
\* Cabinet rows of before are in the tables
C25_Witness ==
    /\ run.script = "load_yaml"
    /\ run.exit = 1
    /\ "insert_error" \in run.failures
    /\ db.Catalog # <<>>
    /\ db.Cabinet # {}

=============================================================================
